---- MODULE Spec2Model ----
(***************************************************************************)
(* A model of createcomponent.py: the interactive scaffolder that asks for *)
(* a base folder and an element path, shows the files it is about to       *)
(* create, and on confirmation writes <name>.tsx, index.ts and             *)
(* <name>.module.css under src/<base folder>/<path>.                       *)
(*                                                                         *)
(* Strings are sequences of one-character strings, so that split, strip,   *)
(* lower, join and slicing are computed as Python computes them.  A Path   *)
(* is a record [root, parts] as pathlib keeps it.  The filesystem is a set *)
(* of directories and a map from file paths to contents.                   *)
(***************************************************************************)
EXTENDS Integers, Sequences, FiniteSets, TLC

\* ------------------------------------------------------------------ bounds

\* Longest line typed at the "Куда кладём?" prompt.
MaxLen == 3

\* How many times generation is run on one element (specification SpecTwice).
MaxRuns == 2

\* ----------------------------------------------------------------- strings

Alphabet == {"a", "b", "/", " "}

Whitespace == {" ", "\n", "\t"}

RECURSIVE StringsUpTo(_)
StringsUpTo(n) ==
    IF n = 0 THEN {<<>>}
    ELSE LET shorter == StringsUpTo(n - 1)
         IN  shorter \cup {Append(s, c) : s \in {t \in shorter : Len(t) = n - 1}, c \in Alphabet}

\* str.lower(), on the characters the prompts are answered with.
LowerChar(c) ==
    CASE c = "C" -> "c"
      [] c = "P" -> "p"
      [] c = "Y" -> "y"
      [] c = "N" -> "n"
      [] OTHER -> c

Lower(s) == [i \in 1..Len(s) |-> LowerChar(s[i])]

RECURSIVE LStrip(_)
LStrip(s) ==
    IF s # <<>> /\ Head(s) \in Whitespace THEN LStrip(Tail(s)) ELSE s

RECURSIVE RStrip(_)
RStrip(s) ==
    IF s # <<>> /\ s[Len(s)] \in Whitespace THEN RStrip(SubSeq(s, 1, Len(s) - 1)) ELSE s

\* str.strip()
Strip(s) == RStrip(LStrip(s))

\* str.split("/"): always at least one segment; segments may be empty.
RECURSIVE Split(_)
Split(s) ==
    IF \A i \in 1..Len(s) : s[i] # "/" THEN <<s>>
    ELSE LET k == CHOOSE i \in 1..Len(s) : s[i] = "/" /\ \A j \in 1..(i - 1) : s[j] # "/"
         IN  <<SubSeq(s, 1, k - 1)>> \o Split(SubSeq(s, k + 1, Len(s)))

\* "/".join(segs)
RECURSIVE Join(_)
Join(segs) ==
    IF segs = <<>> THEN <<>>
    ELSE IF Len(segs) = 1 THEN segs[1]
    ELSE segs[1] \o <<"/">> \o Join(Tail(segs))

\* s[n:]
SliceFrom(s, n) == IF n >= Len(s) THEN <<>> ELSE SubSeq(s, n + 1, Len(s))

\* ------------------------------------------------------------------- paths

Dot == <<".">>
DotDot == <<".", ".">>

\* How many "/" a string starts with.
RECURSIVE LeadingSlashes(_)
LeadingSlashes(s) ==
    IF s # <<>> /\ Head(s) = "/" THEN 1 + LeadingSlashes(Tail(s)) ELSE 0

\* pathlib's parsing of one string: the root is "/" or, for exactly two leading
\* slashes, "//"; empty and "." segments are dropped.
ParsePath(s) ==
    [root  |-> CASE LeadingSlashes(s) = 0 -> ""
                 [] LeadingSlashes(s) = 2 -> "//"
                 [] OTHER -> "/",
     parts |-> SelectSeq(Split(s), LAMBDA seg : seg # <<>> /\ seg # Dot)]

\* Path.__truediv__: an absolute right operand replaces the left one.
PathDiv(p, s) ==
    LET q == ParsePath(s)
    IN  IF q.root # "" THEN q ELSE [root |-> p.root, parts |-> p.parts \o q.parts]

\* Path.parent
Parent(p) ==
    IF p.parts = <<>> THEN p
    ELSE [root |-> p.root, parts |-> SubSeq(p.parts, 1, Len(p.parts) - 1)]

\* str(path)
PathStr(p) ==
    IF p.root = "" /\ p.parts = <<>> THEN Dot
    ELSE (CASE p.root = "" -> <<>> [] p.root = "/" -> <<"/">> [] OTHER -> <<"/", "/">>)
         \o Join(p.parts)

RECURSIVE DropDotDot(_)
DropDotDot(parts) ==
    IF parts = <<>> THEN <<>>
    ELSE LET init == DropDotDot(SubSeq(parts, 1, Len(parts) - 1))
             last == parts[Len(parts)]
         IN  IF last = DotDot
             THEN (IF init = <<>> THEN <<>> ELSE SubSeq(init, 1, Len(init) - 1))
             ELSE Append(init, last)

\* Path.resolve() of an absolute path on a tree without symbolic links: ".."
\* is folded and a "//" root collapses to "/".
Resolve(p) == [root |-> "/", parts |-> DropDotDot(p.parts)]

\* Path(__file__).parent: the directory that holds the script.
ScriptDir == [root |-> "/", parts |-> << <<"r", "e", "p", "o">> >>]

SRC_DIR == PathDiv(ScriptDir, <<"s", "r", "c">>)

Components == <<"c", "o", "m", "p", "o", "n", "e", "n", "t", "s">>
Pages == <<"p", "a", "g", "e", "s">>

BaseFolder == {Components, Pages}

\* -------------------------------------------------------------- filesystem
\* A filesystem is [dirs: the set of directories, files: file path -> content].
\* Paths are looked up by their resolved form ("//x" and "/x" name one file).

Ok(f) == [err |-> "none", fs |-> f]
Failed(e, f) == [err |-> e, fs |-> f]

\* The path itself and every ancestor, the root included.
Ancestors(p) == {[root |-> p.root, parts |-> SubSeq(p.parts, 1, i)] : i \in 0..Len(p.parts)}

\* Path.mkdir(parents=True, exist_ok=...)
Mkdir(f, p, exist_ok) ==
    LET k == Resolve(p)
    IN  IF \E a \in Ancestors(k) \ {k} : a \in DOMAIN f.files THEN Failed("NotADirectoryError", f)
        ELSE IF k \in DOMAIN f.files THEN Failed("FileExistsError", f)
        ELSE IF k \in f.dirs /\ ~exist_ok THEN Failed("FileExistsError", f)
        ELSE Ok([f EXCEPT !.dirs = @ \cup Ancestors(k)])

\* Path.touch(exist_ok=...): creates an empty file unless something is there.
Touch(f, p, exist_ok) ==
    LET k == Resolve(p)
    IN  IF k \in DOMAIN f.files \/ k \in f.dirs
        THEN (IF exist_ok THEN Ok(f) ELSE Failed("FileExistsError", f))
        ELSE IF Parent(k) \in DOMAIN f.files THEN Failed("NotADirectoryError", f)
        ELSE IF Parent(k) \notin f.dirs THEN Failed("FileNotFoundError", f)
        ELSE Ok([f EXCEPT !.files = (k :> <<>>) @@ @])

\* What of a step's I/O the operating system refuses (permissions, a full
\* disk): nothing, the mkdir, the touch, the open of the file for reading or
\* writing, or the write after the file has been opened and truncated.
Faults == {"none", "mkdir", "touch", "open", "write"}

\* Path.read_text(): [err, data].
ReadText(f, p, fault) ==
    LET k == Resolve(p)
    IN  IF k \in f.dirs THEN [err |-> "IsADirectoryError", data |-> <<>>]
        ELSE IF k \notin DOMAIN f.files THEN [err |-> "FileNotFoundError", data |-> <<>>]
        ELSE IF fault = "open" THEN [err |-> "OSError", data |-> <<>>]
        ELSE [err |-> "none", data |-> f.files[k]]

\* Path.write_text(data): opens with mode "w" (truncating), then writes.
WriteText(f, p, data, fault) ==
    LET k == Resolve(p)
    IN  IF k \in f.dirs THEN Failed("IsADirectoryError", f)
        ELSE IF Parent(k) \in DOMAIN f.files THEN Failed("NotADirectoryError", f)
        ELSE IF Parent(k) \notin f.dirs THEN Failed("FileNotFoundError", f)
        ELSE IF fault = "open" THEN Failed("OSError", f)
        ELSE IF fault = "write" THEN Failed("OSError", [f EXCEPT !.files = (k :> <<>>) @@ @])
        ELSE Ok([f EXCEPT !.files = (k :> data) @@ @])

\* ----------------------------------------------------------------- element

\* AskParams._parse_as_element
ParseAsElement(element_str, base_folder) ==
    LET element_as_list == Split(element_str)
        element_name == element_as_list[Len(element_as_list)]
        relative_path == IF Len(element_as_list) > 1
                         THEN Join(SubSeq(element_as_list, 1, Len(element_as_list) - 1))
                         ELSE element_name
    IN  [full_path   |-> PathDiv(PathDiv(SRC_DIR, base_folder), relative_path),
         name        |-> element_name,
         folder_type |-> base_folder]

\* ----------------------------------------------------------- file creators

DotTsx == <<".", "t", "s", "x">>
IndexTs == <<"i", "n", "d", "e", "x", ".", "t", "s">>
DotModuleCss == <<".", "m", "o", "d", "u", "l", "e", ".", "c", "s", "s">>

\* The creators main() registers, in that order.
Creators == <<"TSXFileCreator", "IndexFileCreator", "CSSModuleFileCreator">>

\* get_absolute_filename of the three creators.
GetAbsoluteFilename(kind, el) ==
    CASE kind = "TSXFileCreator" -> PathDiv(el.full_path, el.name \o DotTsx)
      [] kind = "IndexFileCreator" -> PathDiv(el.full_path, IndexTs)
      [] kind = "CSSModuleFileCreator" -> PathDiv(el.full_path, el.name \o DotModuleCss)

\* FileCreator.get_relative_filename
GetRelativeFilename(kind, el) ==
    LET relative_path_start_index == 1 + Len(PathStr(Resolve(SRC_DIR)))
    IN  SliceFrom(PathStr(Resolve(GetAbsoluteFilename(kind, el))), relative_path_start_index)

\* A file's content is a string whose fixed stretches of template text are
\* kept as single elements; the element name is spliced in character by
\* character, and whitespace at either end is kept as single characters.
TSXContents(element_name) ==
    Strip(<<"\n", "import { FC } from \"react\";\nimport styles from \"./">>
          \o element_name
          \o <<".module.css\" \n                \ninterface ">>
          \o element_name
          \o <<"Props {\n                    \n}\n                \nconst ">>
          \o element_name
          \o <<": FC<">>
          \o element_name
          \o <<"Props> = () => {\n    return (\n        <div styles={styles.">>
          \o element_name
          \o <<"}>\n            ">>
          \o element_name
          \o <<"\n        </div>\n    );\n};\n                \nexport default ">>
          \o element_name
          \o <<";">>)

IndexContents(element_name) ==
    Strip(<<"import { default } from \"./">> \o element_name \o <<"\";", " ">>)

CSSContents(element_name) ==
    Strip(<<".">> \o element_name \o <<" {\n}">>)

\* A variant of _create_empty_file that calls touch with exist_ok=False.
CreateEmptyFile_NotExistOk(f, p, fault) ==
    IF fault = "mkdir" THEN Failed("OSError", f)
    ELSE LET made == Mkdir(f, Parent(p), TRUE)
         IN  IF made.err # "none" THEN made
             ELSE IF fault = "touch" THEN Failed("OSError", made.fs)
             ELSE Touch(made.fs, p, FALSE)

\* FileCreator._create_empty_file
CreateEmptyFile(f, p, fault) ==
    IF fault = "mkdir" THEN Failed("OSError", f)
    ELSE LET made == Mkdir(f, Parent(p), TRUE)
         IN  IF made.err # "none" THEN made
             ELSE IF fault = "touch" THEN Failed("OSError", made.fs)
             ELSE Touch(made.fs, p, TRUE)

\* A variant of the stub's _write_file_contents that, like the index's, keeps a
\* file that already holds text.
TSXWriteFileContents_KeepsText(el, f, fault) ==
    LET p == GetAbsoluteFilename("TSXFileCreator", el)
        current_file_content == ReadText(f, p, fault)
    IN  IF current_file_content.err # "none" THEN Failed(current_file_content.err, f)
        ELSE IF Strip(current_file_content.data) # <<>> THEN Ok(f)
        ELSE WriteText(f, p, TSXContents(el.name), fault)

\* TSXFileCreator._write_file_contents
TSXWriteFileContents(el, f, fault) ==
    WriteText(f, GetAbsoluteFilename("TSXFileCreator", el), TSXContents(el.name), fault)

\* A variant of the index's _write_file_contents without the early return.
IndexWriteFileContents_Overwrites(el, f, fault) ==
    LET p == GetAbsoluteFilename("IndexFileCreator", el)
        current_file_content == ReadText(f, p, fault)
    IN  IF current_file_content.err # "none" THEN Failed(current_file_content.err, f)
        ELSE WriteText(f, p, IndexContents(el.name), fault)

\* IndexFileCreator._write_file_contents
IndexWriteFileContents(el, f, fault) ==
    LET p == GetAbsoluteFilename("IndexFileCreator", el)
        current_file_content == ReadText(f, p, fault)
    IN  IF current_file_content.err # "none" THEN Failed(current_file_content.err, f)
        ELSE IF Strip(current_file_content.data) # <<>> THEN Ok(f)
        ELSE WriteText(f, p, IndexContents(el.name), fault)

\* CSSModuleFileCreator._write_file_contents
CSSWriteFileContents(el, f, fault) ==
    WriteText(f, GetAbsoluteFilename("CSSModuleFileCreator", el), CSSContents(el.name), fault)

WriteFileContents(kind, el, f, fault) ==
    CASE kind = "TSXFileCreator" -> TSXWriteFileContents(el, f, fault)
      [] kind = "IndexFileCreator" -> IndexWriteFileContents(el, f, fault)
      [] kind = "CSSModuleFileCreator" -> CSSWriteFileContents(el, f, fault)

\* FileCreator.create
FileCreatorCreate(kind, el, f, fault) ==
    LET made == CreateEmptyFile(f, GetAbsoluteFilename(kind, el), fault)
    IN  IF made.err # "none" THEN made ELSE WriteFileContents(kind, el, made.fs, fault)

\* ElementFilesCreator.get_relative_filenames
GetRelativeFilenames(file_creators, el) ==
    [i \in 1..Len(file_creators) |-> GetRelativeFilename(file_creators[i], el)]

\* A variant of the loop that goes on to the next creator when one fails.
CreateStep_KeepsGoing(file_creators, i, el, f, fault) ==
    LET done == FileCreatorCreate(file_creators[i], el, f, fault)
    IN  IF i = Len(file_creators)
        THEN [fs |-> done.fs, idx |-> i, pc |-> "exited",
              outcome |-> IF done.err # "none" THEN done.err ELSE "completed"]
        ELSE [fs |-> done.fs, idx |-> i + 1, pc |-> "create", outcome |-> "running"]

\* ElementFilesCreator.create, one turn of its loop: creator number i runs; an
\* exception leaves the loop and the program, the last creator's success ends
\* main().  [fs, idx, pc, outcome]
CreateStep(file_creators, i, el, f, fault) ==
    LET done == FileCreatorCreate(file_creators[i], el, f, fault)
    IN  IF done.err # "none"
        THEN [fs |-> done.fs, idx |-> i, pc |-> "exited", outcome |-> done.err]
        ELSE IF i = Len(file_creators)
        THEN [fs |-> done.fs, idx |-> i, pc |-> "exited", outcome |-> "completed"]
        ELSE [fs |-> done.fs, idx |-> i + 1, pc |-> "create", outcome |-> "running"]

\* ----------------------------------------------------------------- prompts

\* AskParams._ask_base_folder, one turn of its loop: the folder, or <<>> to
\* ask again.
AskBaseFolderChoice(line) ==
    LET choice == Lower(Strip(line))
    IN  CASE choice = <<"c">> -> Components
          [] choice = <<"p">> -> Pages
          [] OTHER -> <<>>

\* A variant of ask_ok that takes every line but "n" for a yes.
AskOkChoice_DefaultsToYes(line) ==
    LET choice == Lower(Strip(line))
    IN  IF choice = <<"n">> THEN "exit" ELSE "return"

\* AskParams.ask_ok, one turn of its loop.
AskOkChoice(line) ==
    LET choice == Lower(Strip(line))
    IN  CASE choice = <<"y">> \/ choice = <<>> -> "return"
          [] choice = <<"n">> -> "exit"
          [] OTHER -> "again"

\* The process's exit status: main() returning and a KeyboardInterrupt (caught
\* and passed) end with 0; exit("...") with a message, and any exception that
\* leaves main(), end with 1.
ExitStatus(outcome) ==
    CASE outcome = "completed" -> 0
      [] outcome = "KeyboardInterrupt" -> 0
      [] outcome = "SystemExit" -> 1
      [] OTHER -> 1

\* ------------------------------------------------------------------- state

VARIABLES
    pc,            \* where main() is: ask_base_folder, ask_element, ask_ok, create, exited
    base_folder,   \* ask()'s base_folder
    element_str,   \* what _ask_element returned
    element,       \* the Element ask() returns
    file_creators, \* ElementFilesCreator._file_creators
    filenames,     \* the relative filenames handed to ask_ok
    answer,        \* <<the line on which ask_ok returned or exited>>, else <<>>
    idx,           \* the creator ElementFilesCreator.create is at
    fs,            \* the filesystem
    fs0,           \* the filesystem as it was when this run started
    outcome,       \* running, completed, or the exception that ended the run
    exit_status,   \* the process's exit status once exited, -1 before
    runs           \* how many times generation was started

vars == <<pc, base_folder, element_str, element, file_creators, filenames, answer, idx, fs, fs0,
          outcome, exit_status, runs>>

NoElement == [full_path |-> [root |-> "", parts |-> <<>>], name |-> <<>>, folder_type |-> <<>>]

\* Lines typed at the prompts.
BaseFolderLines == {<<"c">>, <<"C", " ">>, <<"p">>, <<" ", "P">>, <<>>, <<"x">>, <<"c", "p">>}
ElementLines == StringsUpTo(MaxLen)
OkLines == {<<"y">>, <<" ", "Y">>, <<>>, <<"n">>, <<"N", " ">>, <<"x">>}

\* The filesystem before the program starts.  Either nothing below the script's
\* directory exists, or src/components holds a regular file named "a", or
\* src/components/a is a directory that may already hold a.tsx, index.ts and
\* a.module.css (as files, or with a directory in the place of a file).
ExistingDir == PathDiv(PathDiv(SRC_DIR, Components), <<"a">>)
ExistingTsx == PathDiv(ExistingDir, <<"a">> \o DotTsx)
ExistingIndex == PathDiv(ExistingDir, IndexTs)
ExistingCss == PathDiv(ExistingDir, <<"a">> \o DotModuleCss)

Absent == [kind |-> "absent", data |-> <<>>]
ADirectory == [kind |-> "dir", data |-> <<>>]
AFile(data) == [kind |-> "file", data |-> data]

ManualIndex == <<"export { default } from \"./b\";", "\n", "export * from \"./types\";", "\n">>

IndexBefore == {Absent, ADirectory, AFile(<<>>), AFile(<<" ", "\n">>), AFile(ManualIndex)}
StubBefore == {Absent, AFile(<<"o", "l", "d">>)}

FreshFs == [dirs |-> Ancestors(ScriptDir), files |-> <<>>]

BlockedFs ==
    [dirs |-> Ancestors(PathDiv(SRC_DIR, Components)), files |-> (ExistingDir :> <<"x">>)]

ExistingFs(tsx, index, css) ==
    LET entries == {<<ExistingTsx, tsx>>, <<ExistingIndex, index>>, <<ExistingCss, css>>}
        at(p) == (CHOOSE e \in entries : e[1] = p)[2]
    IN  [dirs  |-> Ancestors(ExistingDir) \cup {e[1] : e \in {x \in entries : x[2].kind = "dir"}},
         files |-> [p \in {e[1] : e \in {x \in entries : x[2].kind = "file"}} |-> at(p).data]]

InitialFilesystems ==
    {FreshFs, BlockedFs}
    \cup {ExistingFs(s, i, s) : s \in StubBefore, i \in IndexBefore}
    \cup {ExistingFs(Absent, Absent, ADirectory)}

Init ==
    /\ pc = "ask_base_folder"
    /\ base_folder = <<>>
    /\ element_str = <<>>
    /\ element = NoElement
    /\ file_creators = <<>>
    /\ filenames = <<>>
    /\ answer = <<>>
    /\ idx = 1
    /\ fs \in InitialFilesystems
    /\ fs0 = fs
    /\ outcome = "running"
    /\ exit_status = -1
    /\ runs = 0

\* ----------------------------------------------------------------- actions

\* ask(): one line read by _ask_base_folder.
AskBaseFolder ==
    /\ pc = "ask_base_folder"
    /\ \E line \in BaseFolderLines :
         LET choice == AskBaseFolderChoice(line)
         IN  /\ base_folder' = choice
             /\ pc' = IF choice = <<>> THEN "ask_base_folder" ELSE "ask_element"
    /\ UNCHANGED <<element_str, element, file_creators, filenames, answer, idx, fs, fs0,
                   outcome, exit_status, runs>>

\* ask(): the line read by _ask_element, parsed; then main() registers the
\* three creators and computes the filenames it hands to ask_ok.
AskElement ==
    /\ pc = "ask_element"
    /\ \E line \in ElementLines :
         LET el == ParseAsElement(Strip(line), base_folder)
         IN  /\ element_str' = Strip(line)
             /\ element' = el
             /\ file_creators' = Creators
             /\ filenames' = GetRelativeFilenames(Creators, el)
    /\ pc' = "ask_ok"
    /\ UNCHANGED <<base_folder, answer, idx, fs, fs0, outcome, exit_status, runs>>

\* ask_ok(): one line read at the confirmation prompt.
AskOk ==
    /\ pc = "ask_ok"
    /\ \E line \in OkLines :
         LET choice == AskOkChoice(line)
         IN  /\ answer' = IF choice = "again" THEN <<>> ELSE <<line>>
             /\ pc' = CASE choice = "return" -> "create"
                        [] choice = "exit" -> "exited"
                        [] OTHER -> "ask_ok"
             /\ outcome' = IF choice = "exit" THEN "SystemExit" ELSE outcome
             /\ exit_status' = IF choice = "exit" THEN ExitStatus("SystemExit") ELSE exit_status
             /\ runs' = IF choice = "return" THEN runs + 1 ELSE runs
    /\ idx' = 1
    /\ UNCHANGED <<base_folder, element_str, element, file_creators, filenames, fs, fs0>>

\* element_creator.create(): the next registered creator's create().
Create ==
    /\ pc = "create"
    /\ \E fault \in Faults :
         LET step == CreateStep(file_creators, idx, element, fs, fault)
         IN  /\ fs' = step.fs
             /\ idx' = step.idx
             /\ pc' = step.pc
             /\ outcome' = step.outcome
             /\ exit_status' = IF step.pc = "exited" THEN ExitStatus(step.outcome) ELSE exit_status
    /\ answer' = <<>>
    /\ UNCHANGED <<base_folder, element_str, element, file_creators, filenames, fs0, runs>>

\* Ctrl-C while the program waits at a prompt: caught by the guard around main().
Interrupt ==
    /\ pc \in {"ask_base_folder", "ask_element", "ask_ok"}
    /\ pc' = "exited"
    /\ outcome' = "KeyboardInterrupt"
    /\ exit_status' = ExitStatus("KeyboardInterrupt")
    /\ UNCHANGED <<base_folder, element_str, element, file_creators, filenames, answer, idx, fs, fs0, runs>>

\* Generation is run once more on the same element, on the tree the last run
\* left.
CreateAgain ==
    /\ pc = "exited"
    /\ outcome = "completed"
    /\ runs < MaxRuns
    /\ pc' = "create"
    /\ idx' = 1
    /\ fs0' = fs
    /\ outcome' = "running"
    /\ exit_status' = -1
    /\ runs' = runs + 1
    /\ UNCHANGED <<base_folder, element_str, element, file_creators, filenames, answer, fs>>

Next == AskBaseFolder \/ AskElement \/ AskOk \/ Create \/ Interrupt

Spec == Init /\ [][Next]_vars

NextTwice == Next \/ CreateAgain

SpecTwice == Init /\ [][NextTwice]_vars

\* ------------------------------------------------------------------ claims

FilesystemErrors ==
    {"OSError", "FileExistsError", "FileNotFoundError", "NotADirectoryError", "IsADirectoryError"}

\* What a path names in a filesystem: nothing, a directory, or a file and its content.
EntryAt(f, p) ==
    IF Resolve(p) \in DOMAIN f.files THEN AFile(f.files[Resolve(p)])
    ELSE IF Resolve(p) \in f.dirs THEN ADirectory
    ELSE Absent

HasText(data) == \E i \in 1..Len(data) : data[i] \notin Whitespace

\* The element has been resolved (the path prompt was answered).
Resolved == pc \in {"ask_ok", "create", "exited"} /\ file_creators # <<>>

StubFile == GetAbsoluteFilename("TSXFileCreator", element)
IndexFile == GetAbsoluteFilename("IndexFileCreator", element)
StyleFile == GetAbsoluteFilename("CSSModuleFileCreator", element)

\* The texts the three files are to hold, written out.
ExpectedStub(n) ==
    <<"import { FC } from \"react\";\nimport styles from \"./">> \o n
    \o <<".module.css\" \n                \ninterface ">> \o n
    \o <<"Props {\n                    \n}\n                \nconst ">> \o n
    \o <<": FC<">> \o n
    \o <<"Props> = () => {\n    return (\n        <div styles={styles.">> \o n
    \o <<"}>\n            ">> \o n
    \o <<"\n        </div>\n    );\n};\n                \nexport default ">> \o n
    \o <<";">>

ExpectedStyle(n) == <<".">> \o n \o <<" {\n}">>

ImportLine(n) == <<"import { default } from \"./">> \o n \o <<"\";">>

ReExportLine(n) == <<"export { default } from \"./">> \o n \o <<"\";">>

\* C1, as stated: nothing is created or modified while the program is still at
\* a prompt; creation starts only on the line "y" or an empty line; the line
\* "n" ends the run with the filesystem untouched; any other line only repeats
\* the prompt, so the prompt is never left on one.
C1_AsStated ==
    /\ pc \in {"ask_base_folder", "ask_element", "ask_ok"} => fs = fs0
    /\ (pc = "create" /\ answer # <<>>) => answer[1] \in {<<"y">>, <<>>}
    /\ outcome = "SystemExit" => (answer = << <<"n">> >> /\ fs = fs0)
    /\ answer # <<>> => answer[1] \in {<<"y">>, <<>>, <<"n">>}

\* C1, amended: the same with the line taken stripped of surrounding
\* whitespace and lower-cased: creation starts only on a line that is then
\* "y" or empty, the run is ended untouched only on one that is then "n", and
\* the prompt is left on no other line.
C1_NoWriteBeforeConfirmation ==
    /\ pc \in {"ask_base_folder", "ask_element", "ask_ok"} => fs = fs0
    /\ (pc = "create" /\ answer # <<>>) => Lower(Strip(answer[1])) \in {<<"y">>, <<>>}
    /\ outcome = "SystemExit" => (Lower(Strip(answer[1])) = <<"n">> /\ fs = fs0 /\ pc = "exited")
    /\ answer # <<>> => Lower(Strip(answer[1])) \in {<<"y">>, <<>>, <<"n">>}

\* The run was aborted at the confirmation prompt on a tree that already held
\* files, and the tree is as it was.
C1_Witness ==
    /\ outcome = "SystemExit"
    /\ answer = << <<"N", " ">> >>
    /\ fs = fs0
    /\ EntryAt(fs, ExistingIndex) = AFile(ManualIndex)

\* C2: once generation runs for an element whose index file held text before
\* the run, that index file holds exactly what it held before, whatever the
\* element's name.
C2_IndexWithTextUntouched ==
    (Resolved /\ EntryAt(fs0, IndexFile).kind = "file" /\ HasText(EntryAt(fs0, IndexFile).data))
        => EntryAt(fs, IndexFile) = EntryAt(fs0, IndexFile)

\* Generation for element "b" completed in the directory whose index file
\* re-exports "b"'s neighbour.
C2_Witness ==
    /\ outcome = "completed"
    /\ element.name = <<"b">>
    /\ EntryAt(fs0, IndexFile) = AFile(ManualIndex)
    /\ EntryAt(fs, IndexFile) = AFile(ManualIndex)
    /\ EntryAt(fs, StubFile) = AFile(ExpectedStub(<<"b">>))

\* C3, as stated: after a completed run whose index file was absent, empty or
\* blank before, the index file holds exactly one line, the re-export of the
\* default export of "./<name>".  (Stated for the non-empty names, which C6
\* leaves alone.)
C3_BlankIndexGetsReExport ==
    (outcome = "completed" /\ element.name # <<>> /\ ~HasText(EntryAt(fs0, IndexFile).data))
        => EntryAt(fs, IndexFile) = AFile(ReExportLine(element.name))

\* C4: after every completed run the stub file and the stylesheet hold exactly
\* the generated text for the element's name, whatever they held before.
C4_StubAndStyleRewritten ==
    outcome = "completed"
        => /\ EntryAt(fs, StubFile) = AFile(ExpectedStub(element.name))
           /\ EntryAt(fs, StyleFile) = AFile(ExpectedStyle(element.name))

\* A completed run over a stub and a stylesheet that held other text.
C4_Witness ==
    /\ outcome = "completed"
    /\ EntryAt(fs0, StubFile) = AFile(<<"o", "l", "d">>)
    /\ EntryAt(fs0, StyleFile) = AFile(<<"o", "l", "d">>)
    /\ EntryAt(fs, StubFile) = AFile(ExpectedStub(<<"a">>))
    /\ EntryAt(fs, StyleFile) = AFile(ExpectedStyle(<<"a">>))

\* The place of the last "/" of a string, 0 when it has none.
LastSlash(s) ==
    IF \A i \in 1..Len(s) : s[i] # "/" THEN 0
    ELSE CHOOSE i \in 1..Len(s) : s[i] = "/" /\ \A j \in (i + 1)..Len(s) : s[j] # "/"

\* <root>/<folderKind>/<all segments but the last>, or <root>/<folderKind>/<name>
\* for a single segment, read as a path.
ClaimedDirectory(s, kind) ==
    ParsePath(PathStr(SRC_DIR) \o <<"/">> \o kind \o <<"/">>
              \o (IF LastSlash(s) = 0 THEN s ELSE SubSeq(s, 1, LastSlash(s) - 1)))

\* C5, as stated: the descriptor's name is what follows the last "/" of the
\* input (all of it without one) and its directory is
\* <root>/<folderKind>/<the segments before the last>, or
\* <root>/<folderKind>/<name> for a single segment.  (Stated for the inputs
\* whose name is not empty, which C6 leaves alone.)
C5_Resolve ==
    (Resolved /\ element.name # <<>>)
        => /\ element.name = SubSeq(element_str, LastSlash(element_str) + 1, Len(element_str))
           /\ element.folder_type = base_folder
           /\ element.full_path = ClaimedDirectory(element_str, base_folder)

\* C6, as stated: an input whose name is empty is rejected at the path prompt,
\* so that generation never runs for an empty name and no file whose base name
\* is empty (".tsx", ".module.css") is ever created.
C6_EmptyNameRejected ==
    \A p \in DOMAIN fs.files :
        p.parts # <<>> => p.parts[Len(p.parts)] \notin {DotTsx, DotModuleCss}

\* C7, as stated: the exit status of a run aborted at the confirmation prompt
\* is the non-error status, and so differs from that of a run a filesystem
\* error ended.
C7_AbortStatusIsNotAnError ==
    /\ outcome = "SystemExit" => exit_status = 0
    /\ outcome \in FilesystemErrors => exit_status # 0

\* C8: when a filesystem error ends the run in creator number idx, the files
\* of the creators before it hold what those creators write, and the files of
\* the creators after it are as they were before the run.
C8_NoRollbackNoContinuation ==
    (pc = "exited" /\ outcome \in FilesystemErrors)
        => /\ idx > 1 => EntryAt(fs, StubFile) = AFile(ExpectedStub(element.name))
           /\ idx > 2 => EntryAt(fs, IndexFile) =
                            (IF HasText(EntryAt(fs0, IndexFile).data)
                             THEN EntryAt(fs0, IndexFile)
                             ELSE AFile(ImportLine(element.name)))
           /\ idx < 2 => EntryAt(fs, IndexFile) = EntryAt(fs0, IndexFile)
           /\ idx < 3 => EntryAt(fs, StyleFile) = EntryAt(fs0, StyleFile)

\* The index creator failed: the stub is newly written over its old text and
\* the stylesheet still holds its old text.
C8_Witness ==
    /\ pc = "exited"
    /\ outcome \in FilesystemErrors
    /\ idx = 2
    /\ EntryAt(fs0, StubFile) = AFile(<<"o", "l", "d">>)
    /\ EntryAt(fs, StubFile) = AFile(ExpectedStub(<<"a">>))
    /\ EntryAt(fs, StyleFile) = AFile(<<"o", "l", "d">>)

\* <folderKind>/<dir>/<file>, read as a path, <dir> being the segments before
\* the last or, for a single segment, the name.
ClaimedRelative(s, kind, file) ==
    ParsePath(kind \o <<"/">>
              \o (IF LastSlash(s) = 0 THEN s ELSE SubSeq(s, 1, LastSlash(s) - 1))
              \o <<"/">> \o file)

\* C9, as stated: the filenames shown at confirmation are
\* <folderKind>/<dir>/<name>.tsx, <folderKind>/<dir>/index.ts and
\* <folderKind>/<dir>/<name>.module.css in that order, computing them changes
\* nothing on the filesystem, and they name three distinct files.  (Stated for
\* the inputs whose name is not empty, which C6 leaves alone.)
C9_RelativeFilenames ==
    (Resolved /\ element.name # <<>>)
        => /\ Len(filenames) = 3
           /\ ParsePath(filenames[1]) = ClaimedRelative(element_str, base_folder, element.name \o DotTsx)
           /\ ParsePath(filenames[2]) = ClaimedRelative(element_str, base_folder, IndexTs)
           /\ ParsePath(filenames[3]) = ClaimedRelative(element_str, base_folder, element.name \o DotModuleCss)
           /\ Cardinality({filenames[1], filenames[2], filenames[3]}) = 3
           /\ pc = "ask_ok" => fs = fs0

\* C10: a run of generation that follows a completed run on the same element
\* leaves the filesystem as that run left it, and never fails over something
\* that already exists or over the tree's shape.
C10_Idempotent ==
    runs >= 2
        => /\ outcome = "completed" => fs = fs0
           /\ outcome \in {"running", "completed", "OSError"}

\* The second run completed on a tree that the first run had to create.
C10_Witness ==
    /\ runs = 2
    /\ outcome = "completed"
    /\ fs = fs0
    /\ EntryAt(fs, StubFile) = AFile(ExpectedStub(element.name))
    /\ IndexFile # ExistingIndex

====
